---- MODULE Spec2Model ----
(***************************************************************************)
(* Audio to SRT generator: the SRT encoder of src/App.tsx (formatTime,     *)
(* jsonToSrt), the transcription client of src/unnamed/part_000            *)
(* (fileToBase64, generateTranscription) and the App component's state and *)
(* handlers (src/App.tsx).                                                 *)
(*                                                                         *)
(* Representation.  A JavaScript string that the encoder builds is a       *)
(* sequence of one-character strings, so that its characters can be read   *)
(* back.  Any other string (an error message, a prompt) is the sequence of *)
(* the fragments it is concatenated from.  A number of seconds is an exact *)
(* rational: a whole number of ticks, TicksPerSecond ticks to the second   *)
(* (IEEE-754 rounding noise of the double arithmetic is not modelled).     *)
(* Japanese text of the source is written in Latin letters.                *)
(***************************************************************************)
EXTENDS Integers, Sequences, FiniteSets, TLC

VARIABLES
    \* ---- App component state (useState hooks)
    audioFile,      \* File | null : the selected audio file
    referenceText,  \* string | null
    srtContent,     \* string
    isLoading,      \* boolean
    error,          \* string | null
    \* ---- the asynchronous work the handlers started
    calls,          \* the generateTranscription calls: those pending and the
                    \* last ones that ended, in the order they started
    started,        \* number of generateTranscription calls started so far
    textReads,      \* FileReaders of handleTextFileChange still reading
    downloaded,     \* the file name handleDownloadSrt last offered for download
    srtFrom,        \* history: the audio file srtContent was transcribed from
    \* ---- formatTime applied to an input
    fmtIn, fmtOut,
    \* ---- jsonToSrt applied to an input
    encIn, encOut

appVars == <<audioFile, referenceText, srtContent, isLoading, error, calls,
             started, textReads, downloaded, srtFrom>>
fmtVars == <<fmtIn, fmtOut>>
encVars == <<encIn, encOut>>
vars == <<appVars, fmtVars, encVars>>

-----------------------------------------------------------------------------
(* Bounds of the model *)

\* resolution of a number of seconds: ticks per second (2000: half a millisecond)
TicksPerSecond == 2000
\* longest transcription given to jsonToSrt
MaxSegments == 3
\* generateTranscription calls started in one run
MaxCalls == 2
\* FileReaders of handleTextFileChange reading at once
MaxTextReads == 1

-----------------------------------------------------------------------------
(* JavaScript values *)

\* null and undefined; a value that may be null is a record
Null == [null |-> TRUE]
Undefined == [undefined |-> TRUE]
\* a string held where null may be held too
Str(fragments) == [str |-> fragments]
\* the output of a function that has not been applied yet
NotRun == <<"not run">>

EmptyString == << >>
NL == <<"\n">>
WhiteSpace == {" ", "\n", "\t"}
DigitChars == <<"0", "1", "2", "3", "4", "5", "6", "7", "8", "9">>

\* Number.prototype.toString of a non-negative integer
RECURSIVE toString(_)
toString(n) ==
    IF n < 10 THEN <<DigitChars[n + 1]>>
    ELSE toString(n \div 10) \o <<DigitChars[(n % 10) + 1]>>

\* String.prototype.padStart(targetLength, padChar)
padStart(s, targetLength, padChar) ==
    IF Len(s) >= targetLength THEN s
    ELSE [i \in 1..(targetLength - Len(s)) |-> padChar] \o s

\* (a variant that truncates the milliseconds instead of rounding them)
RoundMillisTruncating(fracTicks) ==
    (1000 * fracTicks) \div TicksPerSecond

\* Math.round(fraction * 1000) of a fraction given in ticks: the nearest
\* integer, a half rounded up
RoundMillis(fracTicks) ==
    (2 * 1000 * fracTicks + TicksPerSecond) \div (2 * TicksPerSecond)

\* String.prototype.trim
RECURSIVE trimStart(_)
trimStart(s) ==
    IF s # << >> /\ Head(s) \in WhiteSpace THEN trimStart(Tail(s)) ELSE s

RECURSIVE trimEnd(_)
trimEnd(s) ==
    IF s # << >> /\ s[Len(s)] \in WhiteSpace
    THEN trimEnd(SubSeq(s, 1, Len(s) - 1)) ELSE s

trim(s) == trimEnd(trimStart(s))

\* Array.prototype.join
RECURSIVE join(_, _)
join(arr, sep) ==
    IF arr = << >> THEN EmptyString
    ELSE IF Len(arr) = 1 THEN arr[1]
    ELSE arr[1] \o sep \o join(Tail(arr), sep)

-----------------------------------------------------------------------------
(* SRT encoder, src/App.tsx *)

formatTime_hours(totalSeconds) ==
    padStart(toString(totalSeconds \div (3600 * TicksPerSecond)), 2, "0")

formatTime_minutes(totalSeconds) ==
    padStart(toString((totalSeconds % (3600 * TicksPerSecond))
                          \div (60 * TicksPerSecond)), 2, "0")

formatTime_seconds(totalSeconds) ==
    padStart(toString((totalSeconds % (60 * TicksPerSecond))
                          \div TicksPerSecond), 2, "0")

formatTime_milliseconds(totalSeconds) ==
    padStart(toString(RoundMillis(totalSeconds % TicksPerSecond)), 3, "0")

\* formatTime: seconds (in ticks) to the SRT timestamp HH:MM:SS,ms
formatTime(totalSeconds) ==
    formatTime_hours(totalSeconds) \o <<":">>
        \o formatTime_minutes(totalSeconds) \o <<":">>
        \o formatTime_seconds(totalSeconds) \o <<",">>
        \o formatTime_milliseconds(totalSeconds)

Arrow == <<" ", "-", "-", ">", " ">>

\* (a variant that writes the 0-based position itself)
BlockNumberZeroBased(index) == index

\* the index number written for the segment at 0-based position index
BlockNumber(index) == index + 1

\* the callback of transcription.map: one entry for (segment, index)
SrtEntry(segment, index) ==
    toString(BlockNumber(index)) \o NL
        \o formatTime(segment.start) \o Arrow \o formatTime(segment.end) \o NL
        \o trim(segment.text) \o NL

\* (a variant that joins the entries with nothing between them)
EntrySeparatorNone == EmptyString

\* the separator given to join
EntrySeparator == NL

\* the order in which map visits the segments: the array's own
MapOrder(transcription) == transcription

jsonToSrt(transcription) ==
    join([i \in 1..Len(transcription) |->
              SrtEntry(MapOrder(transcription)[i], i - 1)],
         EntrySeparator)

\* segment.text.trim() throws a TypeError when an element has no text
jsonToSrtThrows(transcription) ==
    \E i \in 1..Len(transcription) : "text" \notin DOMAIN transcription[i]

-----------------------------------------------------------------------------
(* Errors and other thrown values *)

\* new Error(message)
Error(message) == [isError |-> TRUE, message |-> message]
\* a thrown or rejected value that is not an instance of Error
NonError(what) == [isError |-> FALSE, message |-> <<what>>]
NoValue == [isError |-> FALSE, message |-> << >>]

\* the ProgressEvent that FileReader.onerror receives
ProgressEvent == NonError("ProgressEvent")

NotAnArrayMessage == <<"API response is not a valid array.">>
FailurePrefix == "Failed to generate transcription: "
UnknownErrorMessage == <<"An unknown error occurred during transcription.">>
UnexpectedErrorMessage == <<"An unexpected error occurred.">>
TextReadErrorMessage == <<"Failed to read the reference text file.">>
MissingTextMessage == <<"Cannot read properties of undefined (reading 'trim')">>

-----------------------------------------------------------------------------
(* Transcription client, src/unnamed/part_000 *)

\* (a variant that tests for null only)
TruthyNotNull(text) == text # Null

\* truthiness of a string | null value: if (referenceText)
Truthy(text) == text # Null /\ text # Str(<< >>)

ReferenceStartMarker == "--- REFERENCE TEXT START ---"
ReferenceEndMarker == "--- REFERENCE TEXT END ---"

\* the names the prompt without a reference text lists, lines 70 to 80
ProperNouns ==
    <<"- Akishinonomiya-sama", "- Kiko-sama", "- Hisahito-sama",
      "- Kako-sama", "- Mako-sama", "- Michiko-sama",
      "- Masako-sama (This is the correct kanji for Empress Masako. Do NOT use \"Masako-sama\".)",
      "- Aiko-sama", "- Naruhito-tenno", "- Hisako-sama", "- Nobuko-sama">>

\* the template of lines 39 to 59, referenceText interpolated between the markers
PromptWithReference(text) ==
    <<"You are an expert audio transcriptionist specializing in Japanese. [...]",
      "**CRITICAL INSTRUCTION:** You have been given a reference text. [...]",
      ReferenceStartMarker>>
    \o text.str \o
    <<ReferenceEndMarker,
      "**OUTPUT FORMAT:** [...]",
      "**IMPORTANT EXAMPLE FORMAT:** [...]">>

\* the template of lines 61 to 87
PromptWithoutReference ==
    <<"You are an expert audio transcriptionist, particularly for the Japanese language. [...]",
      "**IMPORTANT**: You must ensure the following names are transcribed correctly. [...]">>
    \o ProperNouns \o
    <<"Example format: [...]">>

BuildPrompt(text) ==
    IF Truthy(text) THEN PromptWithReference(text) ELSE PromptWithoutReference

\* the argument of ai.models.generateContent
BuildRequest(file, base64Audio, text) ==
    [model |-> "gemini-2.5-pro",
     audioPart |-> [mimeType |-> file.type, data |-> base64Audio],
     textPart |-> BuildPrompt(text),
     responseMimeType |-> "application/json"]

NoRequest == [model |-> "none"]

\* how the promise of fileToBase64 settles when the FileReader fires onload:
\* resolved with the part of the data URL after the comma
fileToBase64_onload(file) ==
    [state |-> "fulfilled", value |-> file.base64, reason |-> NoValue]

NoData == "no data"

\* how it settles when the FileReader fires onerror: rejected with the event
fileToBase64_onerror(file) ==
    [state |-> "rejected", value |-> NoData, reason |-> ProgressEvent]

\* JSON values, as JSON.parse returns them
JsonArray(items) == [type |-> "array", items |-> items]
JsonObject == [type |-> "object", items |-> << >>]
JsonNumber == [type |-> "number", items |-> << >>]

\* (a variant that takes any JSON value for an array)
IsArrayAnything(value) == TRUE

\* Array.isArray
IsArray(value) == value.type = "array"

\* JSON.parse of the response text: the value, or a SyntaxError
JSONparse(jsonString) ==
    IF jsonString.wellFormed
    THEN [threw |-> FALSE, value |-> jsonString.value, error |-> NoValue]
    ELSE [threw |-> TRUE, value |-> JsonObject,
          error |-> Error(<<"Unexpected end of JSON input">>)]

Return(segments) == [kind |-> "return", segments |-> segments, thrown |-> NoValue]
Throw(value) == [kind |-> "throw", segments |-> << >>, thrown |-> value]
NoOutcome == [kind |-> "none", segments |-> << >>, thrown |-> NoValue]

\* (a variant that throws again what it caught)
CatchBlockRethrowing(caught) == Throw(caught)

\* the catch block of generateTranscription, lines 133 to 139
CatchBlock(caught) ==
    IF caught.isError
    THEN Throw(Error(<<FailurePrefix>> \o caught.message))
    ELSE Throw(Error(UnknownErrorMessage))

\* (a variant with the await of fileToBase64 inside the try block)
AfterFileToBase64RejectsInTry(reason) == CatchBlock(reason)

\* fileToBase64 is awaited before the try block, line 27: its rejection is
\* thrown to the caller as it is
AfterFileToBase64Rejects(reason) == Throw(reason)

\* the try block once generateContent has settled, lines 124 to 131: the
\* value returned, or the value thrown inside the try block
TryBlock(settled) ==
    IF settled.state = "rejected" THEN Throw(settled.reason)
    ELSE LET parsed == JSONparse(settled.text) IN
         IF parsed.threw THEN Throw(parsed.error)
         ELSE IF ~IsArray(parsed.value) THEN Throw(Error(NotAnArrayMessage))
         ELSE Return(parsed.value.items)

\* how a generateTranscription call ends once generateContent has settled
AfterGenerateContent(settled) ==
    LET tried == TryBlock(settled) IN
    IF tried.kind = "throw" THEN CatchBlock(tried.thrown) ELSE tried

-----------------------------------------------------------------------------
(* The inputs of the App: the files the user can pick and what the service *)
(* can answer                                                              *)

AudioFiles ==
    {[name |-> <<"a", "mp3">>, type |-> "audio/mpeg", base64 |-> "QQ=="],
     [name |-> <<"memo">>, type |-> "", base64 |-> "Qg=="]}

TextFiles ==
    {[content |-> << >>],
     [content |-> <<"Kyoto de, kiseki ga okita.">>]}

\* what the service hears in the audio of a request
Transcript(request) ==
    IF request.audioPart.data = "QQ=="
    THEN <<[start |-> (52 * TicksPerSecond) \div 100,
            end |-> (288 * TicksPerSecond) \div 100,
            text |-> <<" ", "a", "\n">>]>>
    ELSE <<[start |-> 3661 * TicksPerSecond + TicksPerSecond \div 2,
            end |-> 3662 * TicksPerSecond,
            text |-> <<"b">>]>>

Fulfilled(jsonString) ==
    [state |-> "fulfilled", text |-> jsonString, reason |-> NoValue]
Rejected(reason) ==
    [state |-> "rejected", text |-> [wellFormed |-> FALSE], reason |-> reason]
NotSettled == [state |-> "pending"]

JsonText(value) == [wellFormed |-> TRUE, value |-> value]

\* the ways generateContent can settle for a request: a response whose text
\* is a JSON array of segments (none, the transcript, or an element without
\* text), a JSON object, a JSON number, no JSON at all; or a rejection with
\* an Error (with or without a message) or with a value that is no Error
Settlements(request) ==
    {Fulfilled(JsonText(JsonArray(<< >>))),
     Fulfilled(JsonText(JsonArray(Transcript(request)))),
     Fulfilled(JsonText(JsonArray(<<[start |-> 0, end |-> TicksPerSecond]>>))),
     Fulfilled(JsonText(JsonObject)),
     Fulfilled(JsonText(JsonNumber)),
     Fulfilled([wellFormed |-> FALSE]),
     Rejected(Error(<<"fetch failed">>)),
     Rejected(Error(<< >>)),
     Rejected(NonError("a string thrown"))}

-----------------------------------------------------------------------------
(* App component, src/App.tsx *)

\* a call is pending from its start until generateTranscription ends
IsPending(call) == call.pc \in {"reading", "requesting"}
Pending(c) == IsPending(calls[c])

\* (a variant that leaves the button enabled while a call is pending)
GenerateDisabledWithoutLoading == audioFile = Null

\* the disabled attribute of the generate button
GenerateDisabled == audioFile = Null \/ isLoading

\* handleFileChange: e.target.files?.[0] is file
handleFileChange(file) ==
    /\ IF file # Undefined
       THEN /\ audioFile' = file
            /\ srtContent' = EmptyString
            /\ error' = Null
            /\ srtFrom' = Null
       ELSE UNCHANGED <<audioFile, srtContent, error, srtFrom>>
    /\ UNCHANGED <<referenceText, isLoading, calls, started, textReads,
                   downloaded>>
    /\ UNCHANGED <<fmtVars, encVars>>

\* handleTextFileChange: with a file, a FileReader starts reading it
handleTextFileChange(file) ==
    /\ IF file # Undefined
       THEN /\ Len(textReads) < MaxTextReads
            /\ textReads' = Append(textReads, file)
            /\ UNCHANGED referenceText
       ELSE /\ referenceText' = Null
            /\ UNCHANGED textReads
    /\ UNCHANGED <<audioFile, srtContent, isLoading, error, calls, started,
                   downloaded, srtFrom>>
    /\ UNCHANGED <<fmtVars, encVars>>

Remove(seq, i) == SubSeq(seq, 1, i - 1) \o SubSeq(seq, i + 1, Len(seq))

\* reader.onload of handleTextFileChange
TextReaderOnload(i) ==
    /\ i \in 1..Len(textReads)
    /\ referenceText' = Str(textReads[i].content)
    /\ textReads' = Remove(textReads, i)
    /\ UNCHANGED <<audioFile, srtContent, isLoading, error, calls, started,
                   downloaded, srtFrom>>
    /\ UNCHANGED <<fmtVars, encVars>>

\* reader.onerror of handleTextFileChange
TextReaderOnerror(i) ==
    /\ i \in 1..Len(textReads)
    /\ error' = Str(TextReadErrorMessage)
    /\ referenceText' = Null
    /\ textReads' = Remove(textReads, i)
    /\ UNCHANGED <<audioFile, srtContent, isLoading, calls, started, downloaded,
                   srtFrom>>
    /\ UNCHANGED <<fmtVars, encVars>>

\* a generateTranscription(audioFile, referenceText) call as it starts:
\* fileToBase64 is reading.  srtContentAtStart is history: srtContent as
\* handleGenerateSrt found it.
NewCall ==
    [id |-> started + 1,
     pc |-> "reading",
     audioFile |-> audioFile,
     referenceText |-> referenceText,
     read |-> "pending",
     requests |-> 0,
     request |-> NoRequest,
     settled |-> NotSettled,
     outcome |-> NoOutcome,
     srtContentAtStart |-> srtContent]

\* handleGenerateSrt up to its await: the button is clickable, the state is
\* reset and generateTranscription is called
handleGenerateSrt ==
    /\ ~GenerateDisabled
    /\ audioFile # Null
    /\ started < MaxCalls
    /\ started' = started + 1
    /\ isLoading' = TRUE
    /\ error' = Null
    /\ srtContent' = EmptyString
    /\ srtFrom' = Null
    /\ calls' = Append(SelectSeq(calls, IsPending), NewCall)
    /\ UNCHANGED <<audioFile, referenceText, textReads, downloaded>>
    /\ UNCHANGED <<fmtVars, encVars>>

\* the message handleGenerateSrt's catch gives to setError
CaughtMessage(err) ==
    IF err.isError THEN err.message ELSE UnexpectedErrorMessage

\* handleGenerateSrt after its await, for a call that ended with outcome:
\* try (jsonToSrt, setSrtContent), catch (setError), finally (setIsLoading)
AfterAwait(c, outcome) ==
    /\ IF outcome.kind = "return"
       THEN IF jsonToSrtThrows(outcome.segments)
            THEN /\ error' = Str(MissingTextMessage)
                 /\ UNCHANGED <<srtContent, srtFrom>>
            ELSE /\ srtContent' = jsonToSrt(outcome.segments)
                 /\ srtFrom' = calls[c].audioFile
                 /\ UNCHANGED error
       ELSE /\ error' = Str(CaughtMessage(outcome.thrown))
            /\ UNCHANGED <<srtContent, srtFrom>>
    /\ isLoading' = FALSE

\* fileToBase64 of call c settles and generateTranscription goes on: with
\* the data it builds the request and calls generateContent; a rejection is
\* thrown outside the try block and ends the call
AudioReaderSettles(c, settlement) ==
    /\ calls[c].pc = "reading"
    /\ IF settlement.state = "fulfilled"
       THEN /\ calls' = [calls EXCEPT
                   ![c].pc = "requesting",
                   ![c].read = "loaded",
                   ![c].requests = @ + 1,
                   ![c].request = BuildRequest(calls[c].audioFile,
                                               settlement.value,
                                               calls[c].referenceText)]
            /\ UNCHANGED <<srtContent, isLoading, error, srtFrom>>
       ELSE /\ calls' = [calls EXCEPT
                   ![c].pc = "done",
                   ![c].read = "failed",
                   ![c].outcome = AfterFileToBase64Rejects(settlement.reason)]
            /\ AfterAwait(c, AfterFileToBase64Rejects(settlement.reason))
    /\ UNCHANGED <<audioFile, referenceText, started, textReads, downloaded>>
    /\ UNCHANGED <<fmtVars, encVars>>

AudioReaderOnload(c) ==
    AudioReaderSettles(c, fileToBase64_onload(calls[c].audioFile))

AudioReaderOnerror(c) ==
    AudioReaderSettles(c, fileToBase64_onerror(calls[c].audioFile))

\* (a variant that sends the request once more after a failure)
GenerateContentSettlesRetrying(c, settled) ==
    /\ calls[c].pc = "requesting"
    /\ IF AfterGenerateContent(settled).kind = "throw" /\ calls[c].requests < 2
       THEN /\ calls' = [calls EXCEPT ![c].requests = @ + 1]
            /\ UNCHANGED <<srtContent, isLoading, error, srtFrom>>
       ELSE /\ calls' = [calls EXCEPT
                   ![c].pc = "done",
                   ![c].settled = settled,
                   ![c].outcome = AfterGenerateContent(settled)]
            /\ AfterAwait(c, AfterGenerateContent(settled))
    /\ UNCHANGED <<audioFile, referenceText, started, textReads, downloaded>>
    /\ UNCHANGED <<fmtVars, encVars>>

\* generateContent of call c settles: generateTranscription ends and
\* handleGenerateSrt goes on after its await
GenerateContentSettles(c, settled) ==
    /\ calls[c].pc = "requesting"
    /\ calls' = [calls EXCEPT
            ![c].pc = "done",
            ![c].settled = settled,
            ![c].outcome = AfterGenerateContent(settled)]
    /\ AfterAwait(c, AfterGenerateContent(settled))
    /\ UNCHANGED <<audioFile, referenceText, started, textReads, downloaded>>
    /\ UNCHANGED <<fmtVars, encVars>>

\* Array.prototype.join of file name parts with "."
RECURSIVE JoinDots(_)
JoinDots(parts) ==
    IF parts = << >> THEN ""
    ELSE IF Len(parts) = 1 THEN parts[1]
    ELSE parts[1] \o "." \o JoinDots(Tail(parts))

\* the name given to the download: name.split('.').slice(0, -1).join('.'),
\* 'subtitles' when that is empty, then '.srt'
DownloadName(name) ==
    LET fileNameWithoutExtension == JoinDots(SubSeq(name, 1, Len(name) - 1))
    IN  IF fileNameWithoutExtension = "" THEN "subtitles.srt"
        ELSE fileNameWithoutExtension \o ".srt"

\* handleDownloadSrt: the button is rendered while srtContent is not empty
handleDownloadSrt ==
    /\ srtContent # EmptyString
    /\ ~(srtContent = EmptyString \/ audioFile = Null)
    /\ downloaded' = [download |-> DownloadName(audioFile.name)]
    /\ UNCHANGED <<audioFile, referenceText, srtContent, isLoading, error,
                   calls, started, textReads, srtFrom>>
    /\ UNCHANGED <<fmtVars, encVars>>

-----------------------------------------------------------------------------
(* The App: its state after the first render, and its events *)

AppInit ==
    /\ audioFile = Null
    /\ referenceText = Null
    /\ srtContent = EmptyString
    /\ isLoading = FALSE
    /\ error = Null
    /\ calls = << >>
    /\ started = 0
    /\ textReads = << >>
    /\ downloaded = Null
    /\ srtFrom = Null

Init ==
    /\ AppInit
    /\ fmtIn = 0 /\ fmtOut = NotRun
    /\ encIn = << >> /\ encOut = NotRun

AudioReaderFires ==
    \E c \in 1..Len(calls) : AudioReaderOnload(c) \/ AudioReaderOnerror(c)

GenerateContentFires ==
    \E c \in {d \in 1..Len(calls) : calls[d].pc = "requesting"} :
        \E settled \in Settlements(calls[c].request) :
            GenerateContentSettles(c, settled)

Next ==
    \/ \E file \in AudioFiles \cup {Undefined} : handleFileChange(file)
    \/ \E file \in TextFiles \cup {Undefined} : handleTextFileChange(file)
    \/ \E i \in 1..Len(textReads) : TextReaderOnload(i)
    \/ \E i \in 1..Len(textReads) : TextReaderOnerror(i)
    \/ handleGenerateSrt
    \/ AudioReaderFires
    \/ GenerateContentFires
    \/ handleDownloadSrt

Spec == Init /\ [][Next]_vars

\* every FileReader and every request to the service settles in the end
FairSpec ==
    /\ Init /\ [][Next]_vars
    /\ WF_vars(AudioReaderFires)
    /\ WF_vars(GenerateContentFires)

-----------------------------------------------------------------------------
(* formatTime applied to one input *)

\* whole seconds of the inputs: hours, minutes and seconds at the ends of
\* their ranges, the hours on both sides of 100
FmtWholeSeconds ==
    {(h * 60 + m) * 60 + sec : h \in {0, 1, 99, 100}, m \in {0, 59},
                               sec \in {0, 1, 59}}

\* the inputs: every fraction of a second the resolution has
FmtInputs ==
    {w * TicksPerSecond + f : w \in FmtWholeSeconds, f \in 0..(TicksPerSecond - 1)}

FmtInit ==
    /\ AppInit
    /\ fmtIn \in FmtInputs /\ fmtOut = NotRun
    /\ encIn = << >> /\ encOut = NotRun

ApplyFormatTime ==
    /\ fmtOut = NotRun
    /\ fmtOut' = formatTime(fmtIn)
    /\ UNCHANGED <<appVars, fmtIn, encVars>>

FmtNext == ApplyFormatTime

SpecFmt == FmtInit /\ [][FmtNext]_vars

-----------------------------------------------------------------------------
(* jsonToSrt applied to one input *)

\* segments: out of temporal order, with an id that is no position, with
\* white space around and inside the text, with a text of white space only
EncSegments ==
    {[start |-> 5 * TicksPerSecond, end |-> 6 * TicksPerSecond,
      text |-> <<"a">>, id |-> 7],
     [start |-> (31 * TicksPerSecond) \div 10, end |-> (54 * TicksPerSecond) \div 10,
      text |-> <<" ", "b", "\n", "\n", "c", "\n">>],
     [start |-> 0, end |-> TicksPerSecond - 1,
      text |-> <<" ", "\n">>, id |-> 1],
     [start |-> 3661 * TicksPerSecond + TicksPerSecond \div 2,
      end |-> 360000 * TicksPerSecond,
      text |-> <<"\t", "d", " ", "e">>]}

EncInputs == UNION {[1..n -> EncSegments] : n \in 0..MaxSegments}

EncInit ==
    /\ AppInit
    /\ fmtIn = 0 /\ fmtOut = NotRun
    /\ encIn \in EncInputs /\ encOut = NotRun

ApplyJsonToSrt ==
    /\ encOut = NotRun
    /\ encOut' = jsonToSrt(encIn)
    /\ UNCHANGED <<appVars, fmtVars, encIn>>

EncNext == ApplyJsonToSrt

SpecEnc == EncInit /\ [][EncNext]_vars

-----------------------------------------------------------------------------
(* Reading a string back *)

DigitSet == {DigitChars[i] : i \in 1..10}
IsDigits(s) == \A i \in 1..Len(s) : s[i] \in DigitSet
DigitValue(ch) == CHOOSE d \in 0..9 : DigitChars[d + 1] = ch

RECURSIVE ParseNat(_)
ParseNat(s) ==
    IF s = << >> THEN 0
    ELSE 10 * ParseNat(SubSeq(s, 1, Len(s) - 1)) + DigitValue(s[Len(s)])

\* the line of s that starts at pos: up to the next line feed or the end
RECURSIVE LineEnd(_, _)
LineEnd(s, pos) ==
    IF pos > Len(s) \/ s[pos] = "\n" THEN pos ELSE LineEnd(s, pos + 1)
LineAt(s, pos) == SubSeq(s, pos, LineEnd(s, pos) - 1)

-----------------------------------------------------------------------------
(* formatTime *)

HundredHours == 100 * 3600 * TicksPerSecond
FmtApplied == fmtOut # NotRun /\ fmtIn >= 0 /\ fmtIn < HundredHours

\* HH:MM:SS, then whatever follows the comma
FmtClockShape ==
    /\ Len(fmtOut) >= 9
    /\ IsDigits(SubSeq(fmtOut, 1, 2)) /\ fmtOut[3] = ":"
    /\ IsDigits(SubSeq(fmtOut, 4, 5)) /\ fmtOut[6] = ":"
    /\ IsDigits(SubSeq(fmtOut, 7, 8)) /\ fmtOut[9] = ","
    /\ ParseNat(SubSeq(fmtOut, 4, 5)) <= 59
    /\ ParseNat(SubSeq(fmtOut, 7, 8)) <= 59
FmtMillisField == SubSeq(fmtOut, 10, Len(fmtOut))

\* the fraction of the input is 0.9995 s or more
FmtRoundsToThousand == 2 * 1000 * (fmtIn % TicksPerSecond) >= 1999 * TicksPerSecond

\* C2 as stated: for every non-negative input below 100 hours the output is
\* HH:MM:SS,mmm with two digits each for HH, MM and SS, MM and SS at most
\* 59, and mmm exactly three digits (000..999).
C2_ThreeDigitMillis ==
    FmtApplied =>
        /\ FmtClockShape
        /\ Len(FmtMillisField) = 3
        /\ IsDigits(FmtMillisField)

\* C2 amended: HH, MM and SS are as stated; the milliseconds field is three
\* digits (000..999) unless the fraction of the input is 0.9995 s or more,
\* and then it is the four characters 1000, with no carry into the seconds.
C2_MillisThreeDigitsOrThousand ==
    FmtApplied =>
        /\ FmtClockShape
        /\ ParseNat(SubSeq(fmtOut, 7, 8)) = (fmtIn \div TicksPerSecond) % 60
        /\ IF FmtRoundsToThousand
           THEN FmtMillisField = <<"1", "0", "0", "0">>
           ELSE Len(FmtMillisField) = 3 /\ IsDigits(FmtMillisField)

\* formatTime has been applied to 59.9995 s or the like
C2_Witness ==
    /\ FmtApplied
    /\ FmtRoundsToThousand
    /\ FmtMillisField = <<"1", "0", "0", "0">>
    /\ fmtIn >= 59 * TicksPerSecond

-----------------------------------------------------------------------------
(* jsonToSrt *)

EncApplied == encOut # NotRun

TimeRangeLine(segment) ==
    formatTime(segment.start) \o Arrow \o formatTime(segment.end)

RECURSIVE NumDigits(_)
NumDigits(n) == IF n < 10 THEN 1 ELSE 1 + NumDigits(n \div 10)

\* characters of the block of the i-th segment: the index line, the time
\* range line and the text, each with its line feed
BlockLength(t, i) ==
    NumDigits(i) + 1 + Len(TimeRangeLine(t[i])) + 1 + Len(trim(t[i].text)) + 1

\* where the block of the i-th segment starts, one line feed between blocks
RECURSIVE BlockStart(_, _)
BlockStart(t, i) ==
    IF i = 1 THEN 1 ELSE BlockStart(t, i - 1) + BlockLength(t, i - 1) + 1

\* C3: the output holds exactly one block per segment, in input order, and
\* the block of the segment at 0-based position i is numbered i + 1,
\* whatever the segment holds.
C3_IndexIsPositionPlusOne ==
    EncApplied =>
        /\ Len(encOut) =
               IF encIn = << >> THEN 0
               ELSE BlockStart(encIn, Len(encIn)) + BlockLength(encIn, Len(encIn)) - 1
        /\ \A i \in 1..Len(encIn) :
               LET at == BlockStart(encIn, i)
                   indexLine == LineAt(encOut, at)
               IN  /\ indexLine # << >>
                   /\ IsDigits(indexLine)
                   /\ ParseNat(indexLine) = (i - 1) + 1
                   /\ LineAt(encOut, at + Len(indexLine) + 1) = TimeRangeLine(encIn[i])

\* jsonToSrt has been applied to segments that are out of temporal order
\* and carry an id that is not their position
C3_Witness ==
    /\ EncApplied
    /\ Len(encIn) >= 2
    /\ encIn[1].start > encIn[2].start
    /\ "id" \in DOMAIN encIn[1] /\ encIn[1].id # 1

\* the entries of the first n segments as the claim describes them: index
\* line, time range line, trimmed text; one blank line between two entries
RECURSIVE EntriesWithBlankLines(_, _)
EntriesWithBlankLines(t, n) ==
    IF n = 0 THEN EmptyString
    ELSE EntriesWithBlankLines(t, n - 1)
             \o (IF n > 1 THEN <<"\n", "\n">> ELSE EmptyString)
             \o toString(n) \o NL \o TimeRangeLine(t[n]) \o NL \o trim(t[n].text)

\* C4 as stated: the output is the entries with exactly one blank line
\* between consecutive entries and nothing after the last entry's text; the
\* empty sequence gives the empty string.
C4_NothingAfterLastText ==
    EncApplied => encOut = EntriesWithBlankLines(encIn, Len(encIn))

\* C4 amended: the output is the entries with exactly one blank line between
\* consecutive entries and exactly one line feed after the last entry's
\* text; the empty sequence gives the empty string.
C4_OneLineFeedAfterLastText ==
    EncApplied =>
        encOut = IF encIn = << >> THEN EmptyString
                 ELSE EntriesWithBlankLines(encIn, Len(encIn)) \o NL

\* jsonToSrt has been applied to two segments or more
C4_Witness ==
    /\ EncApplied
    /\ Len(encIn) >= 2
    /\ encOut[Len(encOut)] = "\n"

-----------------------------------------------------------------------------
(* generateTranscription *)

Calls == 1..Len(calls)
Done(c) == calls[c].pc = "done"

\* the error kinds of the specification, told by what the code throws: a
\* TranscriptionFailure is an Error built by the catch block (line 136 or
\* line 138), a ResponseFormatError is the Error of line 128 as it is
IsTranscriptionFailure(e) ==
    /\ e.isError
    /\ \/ e.message = UnknownErrorMessage
       \/ (e.message # << >> /\ e.message[1] = FailurePrefix)
IsResponseFormatError(e) ==
    e.isError /\ e.message = NotAnArrayMessage

\* the reply of call c parsed as JSON and was not an array
RepliedNonArray(c) ==
    /\ Done(c)
    /\ calls[c].settled.state = "fulfilled"
    /\ calls[c].settled.text.wellFormed
    /\ calls[c].settled.text.value.type # "array"

\* C1 as stated: when the reply parses as JSON but is not an array, the call
\* fails with a ResponseFormatError, an outcome that is no
\* TranscriptionFailure, and returns no segments.
C1_FormatErrorIsDistinct ==
    \A c \in Calls :
        RepliedNonArray(c) =>
            /\ calls[c].outcome.kind = "throw"
            /\ calls[c].outcome.segments = << >>
            /\ IsResponseFormatError(calls[c].outcome.thrown)
            /\ ~IsTranscriptionFailure(calls[c].outcome.thrown)

\* C1 amended: when the reply parses as JSON but is not an array, the call
\* fails and returns no segments; what it throws is a TranscriptionFailure
\* like that of any other failure in the try block, whose message is the
\* fixed prefix followed by "API response is not a valid array.".
C1_FormatErrorIsWrapped ==
    \A c \in Calls :
        RepliedNonArray(c) =>
            /\ calls[c].outcome.kind = "throw"
            /\ calls[c].outcome.segments = << >>
            /\ IsTranscriptionFailure(calls[c].outcome.thrown)
            /\ calls[c].outcome.thrown.message = <<FailurePrefix>> \o NotAnArrayMessage

\* a call has ended on a reply that is a JSON object
C1_Witness ==
    \E c \in Calls :
        RepliedNonArray(c) /\ calls[c].settled.text.value = JsonObject

\* the service call of call c, or the parse of its reply, failed; Cause is
\* what was thrown there
ServiceOrParseFailed(c) ==
    /\ Done(c)
    /\ \/ calls[c].settled.state = "rejected"
       \/ (calls[c].settled.state = "fulfilled" /\ ~calls[c].settled.text.wellFormed)
Cause(c) ==
    IF calls[c].settled.state = "rejected" THEN calls[c].settled.reason
    ELSE Error(<<"Unexpected end of JSON input">>)

\* C6: when the service call or the JSON parse fails, the call fails with a
\* TranscriptionFailure whose message is not empty: the prefix and the
\* message of the cause when the cause is an Error, the fixed unknown-error
\* message when it is not.
C6_FailureCarriesMessage ==
    \A c \in Calls :
        ServiceOrParseFailed(c) =>
            /\ calls[c].outcome.kind = "throw"
            /\ calls[c].outcome.thrown.isError
            /\ calls[c].outcome.thrown.message # << >>
            /\ IsTranscriptionFailure(calls[c].outcome.thrown)
            /\ IF Cause(c).isError
               THEN calls[c].outcome.thrown.message
                        = <<FailurePrefix>> \o Cause(c).message
               ELSE calls[c].outcome.thrown.message = UnknownErrorMessage

\* a call has ended on a rejection with a value that is no Error
C6_Witness ==
    \E c \in Calls :
        /\ ServiceOrParseFailed(c)
        /\ calls[c].settled.state = "rejected"
        /\ ~calls[c].settled.reason.isError

\* the prompt holds text, whole, between the two markers
BetweenMarkers(prompt, text) ==
    \E i, j \in 1..Len(prompt) :
        /\ i < j
        /\ prompt[i] = ReferenceStartMarker
        /\ prompt[j] = ReferenceEndMarker
        /\ SubSeq(prompt, i + 1, j - 1) = text
HoldsEveryProperNoun(prompt) ==
    \A k \in 1..Len(ProperNouns) :
        \E i \in 1..Len(prompt) : prompt[i] = ProperNouns[k]

RequestBuilt(c) == calls[c].request # NoRequest

\* C7 as stated: with any reference text that is not null, the empty string
\* too, the instruction holds that text between the markers; with null it
\* holds every entry of the proper-noun list.
C7_AnyNonNullTextIsEmbedded ==
    \A c \in Calls :
        RequestBuilt(c) =>
            IF calls[c].referenceText # Null
            THEN BetweenMarkers(calls[c].request.textPart, calls[c].referenceText.str)
            ELSE HoldsEveryProperNoun(calls[c].request.textPart)

\* C7 amended: with a reference text that is neither null nor the empty
\* string, the instruction holds that text between the markers; with null
\* or the empty string it holds every entry of the proper-noun list (and no
\* marker).
C7_NonEmptyTextIsEmbedded ==
    \A c \in Calls :
        RequestBuilt(c) =>
            IF calls[c].referenceText # Null /\ calls[c].referenceText.str # << >>
            THEN BetweenMarkers(calls[c].request.textPart, calls[c].referenceText.str)
            ELSE /\ HoldsEveryProperNoun(calls[c].request.textPart)
                 /\ \A i \in 1..Len(calls[c].request.textPart) :
                        calls[c].request.textPart[i] # ReferenceStartMarker

\* a request has been built with the empty string for reference text
C7_Witness ==
    \E c \in Calls :
        /\ RequestBuilt(c)
        /\ calls[c].referenceText = Str(<< >>)
        /\ HoldsEveryProperNoun(calls[c].request.textPart)

-----------------------------------------------------------------------------
(* The life of a call *)

CallShape(c) ==
    /\ IsPending(calls[c]) <=> calls[c].outcome.kind = "none"
    /\ Done(c) <=> calls[c].outcome.kind \in {"return", "throw"}
    /\ calls[c].pc \in {"reading", "requesting", "done"}
    /\ calls[c].outcome.kind = "return" => calls[c].outcome.thrown = NoValue
    /\ calls[c].outcome.kind = "throw" => calls[c].outcome.segments = << >>
    /\ calls[c].requests <= 1
    /\ calls[c].pc = "reading" => calls[c].requests = 0

\* the call with identity id is pending, or has ended
PendingId(id) == \E c \in Calls : calls[c].id = id /\ IsPending(calls[c])
DoneId(id) == \E c \in Calls : calls[c].id = id /\ Done(c)

\* a call that has ended is never touched again
EndedCallsStay ==
    \A c \in Calls :
        Done(c) =>
            \A d \in 1..Len(calls') :
                calls'[d].id = calls[c].id => calls'[d] = calls[c]

\* C5: every call goes from pending to exactly one terminal outcome, a
\* whole segment sequence or an error; it issues at most one request; once
\* ended it issues no further request and never changes; and when the file
\* read and the service each answer in the end, a pending call ends.
C5_OneTerminalOutcome ==
    /\ [](\A c \in Calls : CallShape(c))
    /\ [][EndedCallsStay]_vars
    /\ \A id \in 1..MaxCalls : PendingId(id) ~> DoneId(id)

\* a call has failed after its one request and the App is idle again
C5_Witness ==
    \E c \in Calls :
        /\ Done(c)
        /\ calls[c].outcome.kind = "throw"
        /\ calls[c].requests = 1
        /\ started = MaxCalls

-----------------------------------------------------------------------------
(* A failed read of the audio file *)

\* this step is the rejection of call c's fileToBase64
ReadFails(c) ==
    /\ calls[c].pc = "reading"
    /\ c <= Len(calls') /\ calls'[c].pc = "done"

AbortedDistinctly(c) ==
    /\ calls'[c].requests = 0
    /\ calls'[c].request = NoRequest
    /\ calls'[c].outcome.kind = "throw"
    /\ ~IsTranscriptionFailure(calls'[c].outcome.thrown)
    /\ ~IsResponseFormatError(calls'[c].outcome.thrown)

\* C8 as stated: when reading the audio file fails no request is sent, the
\* caller gets a failure that is neither a TranscriptionFailure nor a
\* ResponseFormatError, and the attempt leaves the state as it found it but
\* for the report of the failure.
C8_AbortWithoutSideEffects ==
    [][\A c \in Calls :
          ReadFails(c) =>
              /\ AbortedDistinctly(c)
              /\ error' # Null
              /\ isLoading' = FALSE
              /\ srtContent' = calls[c].srtContentAtStart
              /\ UNCHANGED <<audioFile, referenceText, textReads, downloaded>>]_vars

\* C8 amended: when reading the audio file fails no request is sent and the
\* caller gets a failure that is neither a TranscriptionFailure nor a
\* ResponseFormatError; the App reports it as "An unexpected error
\* occurred." and stops loading; the selected file and the reference text
\* are untouched, but srtContent is left empty: the subtitles of an earlier
\* attempt were cleared when this one started and are not restored.
C8_AbortLeavesSrtContentCleared ==
    [][\A c \in Calls :
          ReadFails(c) =>
              /\ AbortedDistinctly(c)
              /\ calls'[c].outcome.thrown = ProgressEvent
              /\ error' = Str(UnexpectedErrorMessage)
              /\ isLoading' = FALSE
              /\ srtContent' = EmptyString
              /\ UNCHANGED <<audioFile, referenceText, textReads, downloaded>>]_vars

\* the read has failed in an attempt that found subtitles of an earlier one
C8_Witness ==
    \E c \in Calls :
        /\ calls[c].read = "failed"
        /\ calls[c].srtContentAtStart # EmptyString
        /\ srtContent = EmptyString
        /\ error = Str(UnexpectedErrorMessage)

-----------------------------------------------------------------------------
(* The App's state *)

\* C9: subtitles on display were transcribed from the audio file that is
\* selected now, so that the download is never named after another file.
C9_SrtContentIsOfSelectedFile ==
    srtContent # EmptyString => srtFrom = audioFile

\* C10: isLoading is true exactly while a call started by handleGenerateSrt
\* is pending; at most one is pending at a time; the generate button is
\* disabled exactly while loading or while no file is selected; after a
\* call has ended, with segments or with an error, isLoading is false.
C10_LoadingIffOnePending ==
    /\ isLoading <=> (\E c \in Calls : Pending(c))
    /\ Cardinality({c \in Calls : Pending(c)}) <= 1
    /\ ENABLED handleGenerateSrt =>
           (audioFile # Null /\ ~isLoading)
    /\ (\A c \in Calls : Done(c)) => ~isLoading

\* a second call is pending after the first one has ended
C10_Witness ==
    /\ isLoading
    /\ started = 2
    /\ \E c \in Calls : Pending(c)

====
